---- MODULE Spec2Model ----
(***************************************************************************)
(* sky-color-wallpaper: one run of the program (src/main.rs).              *)
(*                                                                         *)
(* Instants are integers counted in minutes.  An Option<T> is a sequence   *)
(* of length at most one: <<>> is None and <<x>> is Some(x).  A string     *)
(* that the program takes apart (a path, a URL, an error text) is a        *)
(* sequence of one-character strings.                                      *)
(***************************************************************************)
EXTENDS Integers, Sequences, FiniteSets, TLC

VARIABLES
    pc,              \* position of the run / of the function under study
    config,          \* Option<Config>: the loaded configuration
    now,             \* OffsetDateTime::now_local()
    today_beginning, \* now.replace_time(Time::MIDNIGHT)
    solar,           \* what geodate::sun_transit returns for today_beginning
    events,          \* (sunrise, midday, sunset, midnight) of todays_events
    weather,         \* Option<CurrentWeatherData> handed to Config::paths
    weatherCall,     \* how Openweathermap::weather_data ended
    period,          \* the rule list Config::paths picked
    entry,           \* the rule entry the weather filter is applied to
    kept,            \* whether the filter closure kept that entry
    paths,           \* Vec<String> returned by Config::paths
    chosen,          \* Option<String>: result of Config::choose
    applied,         \* number of calls of wallpaper::set_from_path
    exitCode,        \* Option<int>: the exit status of the process
    outcome,         \* what ended the run: the error, the panic or the success
    path,            \* argument of de::expand_user_with
    home,            \* home directory handed to de::expand_user_with
    expanded,        \* Option<Result<String, String>> of de::expand_user_with
    keyFile,         \* Option<io::Result<String>>: fs::read_to_string of the key file
    api_key,         \* the key captured from the key file
    reply,           \* what the HTTP client answers to the weather call
    log              \* the messages written through tracing

vars == <<pc, config, now, today_beginning, solar, events, weather, weatherCall,
          period, entry, kept, paths, chosen, applied, exitCode, outcome, path,
          home,
          expanded, keyFile, api_key, reply, log>>

None == <<>>
Some(x) == <<x>>
IsSome(o) == o # <<>>
Unwrap(o) == o[1]

(***************************************************************************)
(* Bounds of the model.                                                    *)
(***************************************************************************)
MaxTick == 5
MaxDay == 2
MaxConds == 2
MaxPathLen == 4
KeyLen == 2
MaxTextLen == 4
MaxKeyFileLen == 4

\* Instants the classifier is tried on: every 45 minutes, so that both
\* sunset and sunset - 90min fall on the grid.
Times == {45 * k : k \in 0..MaxTick}

(***************************************************************************)
(* Config::paths, first half: the period of the day.                       *)
(***************************************************************************)
Periods == {"midnight", "morning", "early_afternoon", "late_afternoon", "evening"}

\* time::Duration::minutes(90)
NinetyMinutes == 90

\* A slip in the third branch: the lower bound of late afternoon dropped.
PeriodOfNoLowerBound(t, sunrise, midday, sunset, midnight) ==
    IF sunrise <= t /\ t < midday THEN "morning"
    ELSE IF midday <= t /\ t < sunset - NinetyMinutes THEN "early_afternoon"
    ELSE IF t < sunset THEN "late_afternoon"
    ELSE IF sunset <= t /\ t < midnight THEN "evening"
    ELSE "midnight"

\* A slip in the first two branches: morning tested after early afternoon
\* and with an inclusive upper end.
PeriodOfInclusiveMorning(t, sunrise, midday, sunset, midnight) ==
    IF midday <= t /\ t < sunset - NinetyMinutes THEN "early_afternoon"
    ELSE IF sunrise <= t /\ t <= midday THEN "morning"
    ELSE IF midday <= t /\ t < sunset THEN "late_afternoon"
    ELSE IF sunset <= t /\ t < midnight THEN "evening"
    ELSE "midnight"

\* The if / else-if chain of Config::paths.
PeriodOf(t, sunrise, midday, sunset, midnight) ==
    IF sunrise <= t /\ t < midday THEN "morning"
    ELSE IF midday <= t /\ t < sunset - NinetyMinutes THEN "early_afternoon"
    ELSE IF midday <= t /\ t < sunset THEN "late_afternoon"
    ELSE IF sunset <= t /\ t < midnight THEN "evening"
    ELSE "midnight"

Sunrise(ev) == ev[1]
Midday(ev) == ev[2]
Sunset(ev) == ev[3]
Midnight(ev) == ev[4]

PeriodAt(t, ev) == PeriodOf(t, Sunrise(ev), Midday(ev), Sunset(ev), Midnight(ev))

(***************************************************************************)
(* Values the variables hold while the part of the program they belong to  *)
(* is not running.                                                         *)
(***************************************************************************)
NoEvents == <<0, 0, 0, 0>>
NoSolar == [sunrise |-> None, midday |-> 0, sunset |-> None, midnight |-> 0]
NoEntry == [on |-> None, patterns |-> <<>>]

TimeIdle ==
    /\ now = 0 /\ today_beginning = 0 /\ solar = NoSolar
    /\ events = NoEvents /\ period = "unset"
RunIdle ==
    /\ config = None /\ paths = <<>> /\ chosen = None
    /\ applied = 0 /\ exitCode = None /\ outcome = "running"
WeatherIdle == weather = None /\ weatherCall = "not_called"
MatchIdle == entry = NoEntry /\ kept = FALSE
ExpandIdle == path = <<>> /\ home = <<>> /\ expanded = None
CallIdle == keyFile = None /\ api_key = <<>> /\ reply = None /\ log = <<>>

runVars == <<config, paths, chosen, applied, exitCode, outcome>>
weatherVars == <<weather, weatherCall>>
matchVars == <<entry, kept>>
expandVars == <<path, home, expanded>>
callVars == <<keyFile, api_key, reply, log>>

(***************************************************************************)
(* The classifier on its own: every instant and every four moments of the  *)
(* grid, in any order.                                                     *)
(***************************************************************************)
ClassifyInit ==
    /\ pc = "classify"
    /\ now \in Times
    /\ events \in Times \X Times \X Times \X Times
    /\ today_beginning = 0 /\ solar = NoSolar /\ period = "unset"
    /\ RunIdle /\ WeatherIdle /\ MatchIdle /\ ExpandIdle /\ CallIdle

Classify ==
    /\ pc = "classify"
    /\ period' = PeriodAt(now, events)
    /\ pc' = "classified"
    /\ UNCHANGED <<now, today_beginning, solar, events, runVars, weatherVars,
                   matchVars, expandVars, callVars>>

ClassifyNext == Classify

SpecClassify == ClassifyInit /\ [][ClassifyNext]_vars

\* The four ranges of the decision order, as half-open intervals.
Ranges(ev) ==
    << [lo |-> Sunrise(ev), hi |-> Midday(ev), name |-> "morning"],
       [lo |-> Midday(ev), hi |-> Sunset(ev) - 90, name |-> "early_afternoon"],
       [lo |-> Midday(ev), hi |-> Sunset(ev), name |-> "late_afternoon"],
       [lo |-> Sunset(ev), hi |-> Midnight(ev), name |-> "evening"] >>

InRange(t, r) == r.lo <= t /\ t < r.hi

Matching(t, ev) == {i \in 1..4 : InRange(t, Ranges(ev)[i])}

FirstMatch(t, ev) ==
    IF Matching(t, ev) = {} THEN "midnight"
    ELSE Ranges(ev)[CHOOSE i \in Matching(t, ev) :
                        \A j \in Matching(t, ev) : i <= j].name

\* C1: for every instant and every four moments, in any order, the period
\* Config::paths picks is the first range of the decision order that holds
\* the instant, and Midnight when none does; the result is always one of
\* the five periods.
C1_FirstMatch ==
    pc = "classified" =>
        /\ period = FirstMatch(now, events)
        /\ period \in Periods

\* C1 witness: moments out of their usual order (sunset before sunrise),
\* no range holding the instant, classified as Midnight.
C1_Witness ==
    /\ pc = "classified"
    /\ Sunset(events) < Sunrise(events)
    /\ Matching(now, events) = {}
    /\ period = "midnight"

EarlyRange(t, ev) == Midday(ev) <= t /\ t < Sunset(ev) - 90
LateRange(t, ev) == Midday(ev) <= t /\ t < Sunset(ev) /\ t >= Sunset(ev) - 90
EveningRange(t, ev) == Sunset(ev) <= t /\ t < Midnight(ev)
MorningRange(t, ev) == Sunrise(ev) <= t /\ t < Midday(ev)

\* C7 as stated: each of the three ranges, taken on its own, decides the
\* period, for every instant and every four moments.
C7_EachRangeAlone ==
    pc = "classified" =>
        /\ EarlyRange(now, events) => period = "early_afternoon"
        /\ LateRange(now, events) => period = "late_afternoon"
        /\ EveningRange(now, events) => period = "evening"

\* C7 amended: the early and late afternoon ranges decide the period on
\* their own; the evening range decides it unless the instant also lies in
\* the morning range, which is tested first and then wins.
C7_RangesInOrder ==
    pc = "classified" =>
        /\ EarlyRange(now, events) => period = "early_afternoon"
        /\ LateRange(now, events) => period = "late_afternoon"
        /\ EveningRange(now, events) /\ ~MorningRange(now, events)
               => period = "evening"
        /\ EveningRange(now, events) /\ MorningRange(now, events)
               => period = "morning"

\* C7 witness: an instant in both the evening and the morning range.
C7_Witness ==
    /\ pc = "classified"
    /\ EveningRange(now, events)
    /\ MorningRange(now, events)
    /\ period = "morning"

(***************************************************************************)
(* Config::choose, todays_events: the four moments of the day.             *)
(***************************************************************************)
\* time::Duration::DAY
Day == 1440

\* A slip in the comparison: the later of the two instants is advanced.
MidnightBoundaryLater(midnight, beginning) ==
    (IF midnight < beginning THEN beginning ELSE midnight) + Day

\* from_unix_timestamp(if midnight < today_beginning { midnight }
\*                     else { today_beginning })? + time::Duration::DAY
MidnightBoundary(midnight, beginning) ==
    (IF midnight < beginning THEN midnight ELSE beginning) + Day

\* todays_events: get_sunrise and get_sunset return an Option that is
\* unwrapped with unimplemented!(), which panics on None.
todays_events(beginning, s) ==
    IF s.sunrise = None THEN [kind |-> "panic"]
    ELSE IF s.sunset = None THEN [kind |-> "panic"]
    ELSE [kind |-> "ok",
          events |-> << Unwrap(s.sunrise), s.midday, Unwrap(s.sunset),
                        MidnightBoundary(s.midnight, beginning) >>]

\* Starts of the local days the model looks at.
DayStarts == {Day * d : d \in 0..MaxDay}

\* Instants the solar library may answer with: every six hours from one day
\* before the first day start to one day after the last.
SolarTimes == {360 * k : k \in (-4)..(4 * MaxDay + 4)}

EventsInit ==
    /\ pc = "events"
    /\ today_beginning \in DayStarts
    /\ now = today_beginning
    /\ \E sr \in {None, Some(today_beginning + 360)},
          ss \in {None, Some(today_beginning + 1080)},
          mn \in SolarTimes :
            solar = [sunrise |-> sr, midday |-> today_beginning + 720,
                     sunset |-> ss, midnight |-> mn]
    /\ events = NoEvents /\ period = "unset"
    /\ RunIdle /\ WeatherIdle /\ MatchIdle /\ ExpandIdle /\ CallIdle

EventsOk ==
    /\ pc = "events"
    /\ todays_events(today_beginning, solar).kind = "ok"
    /\ events' = todays_events(today_beginning, solar).events
    /\ pc' = "events_done"
    /\ UNCHANGED <<now, today_beginning, solar, period, runVars, weatherVars,
                   matchVars, expandVars, callVars>>

EventsPanic ==
    /\ pc = "events"
    /\ todays_events(today_beginning, solar).kind = "panic"
    /\ pc' = "panicked"
    /\ UNCHANGED <<now, today_beginning, solar, events, period, runVars,
                   weatherVars, matchVars, expandVars, callVars>>

EventsNext == EventsOk \/ EventsPanic

SpecEvents == EventsInit /\ [][EventsNext]_vars

\* C6 as stated: for every raw midnight and every day start the boundary is
\* strictly later than the day start, and a raw midnight that precedes the
\* day start is advanced by one day.
C6_AlwaysAfterDayStart ==
    pc = "events_done" =>
        /\ Midnight(events) > today_beginning
        /\ solar.midnight < today_beginning
               => Midnight(events) = solar.midnight + 1440

\* C6 amended: a raw midnight that precedes the day start is advanced by one
\* day, any other raw midnight is replaced by the day start advanced by one
\* day, and the boundary is strictly later than the day start exactly when
\* the raw midnight is later than one day before the day start.
C6_EarlierOfTheTwoPlusDay ==
    pc = "events_done" =>
        /\ solar.midnight < today_beginning
               => Midnight(events) = solar.midnight + 1440
        /\ solar.midnight >= today_beginning
               => Midnight(events) = today_beginning + 1440
        /\ Midnight(events) > today_beginning
               <=> solar.midnight > today_beginning - 1440

\* C6 witness: a raw midnight one day or more before the day start, whose
\* boundary is not after the day start.
C6_Witness ==
    /\ pc = "events_done"
    /\ solar.midnight <= today_beginning - 1440
    /\ Midnight(events) <= today_beginning

(***************************************************************************)
(* Config::paths, the weather filter, and CurrentWeatherData::matches.     *)
(***************************************************************************)
\* openweathermap::Cond: Id(u64) is [id |-> n], Main(WeatherMain) is
\* [main |-> m].
IsId(cond) == "id" \in DOMAIN cond

\* CurrentWeatherData::matches: any condition of the snapshot against any
\* Cond of the filter.
matches(snapshot, conds) ==
    \E i \in 1..Len(snapshot) :
        \E j \in 1..Len(conds) :
            IF IsId(conds[j]) THEN snapshot[i].id = conds[j].id
            ELSE snapshot[i].main = conds[j].main

\* A slip in the filter closure: no weather data taken as a wildcard.
KeepsWildcard(on, w) ==
    IF IsSome(on) /\ IsSome(w) THEN matches(Unwrap(w), Unwrap(on))
    ELSE TRUE

\* The closure handed to filter in Config::paths.
Keeps(on, w) ==
    IF IsSome(on) /\ IsSome(w) THEN matches(Unwrap(w), Unwrap(on))
    ELSE IF IsSome(on) THEN FALSE
    ELSE TRUE

SeqsUpTo(S, n) == UNION {[1..k -> S] : k \in 0..n}

\* Filter values and weather conditions the model draws from.  A condition
\* pairs any code with any category: the response is not checked for the
\* two agreeing.
FilterValues == {[id |-> 500], [id |-> 800], [main |-> "Clear"], [main |-> "Rain"]}
Conditions == [id : {500, 800}, main : {"Clear", "Rain"}]

MatchInit ==
    /\ pc = "filter"
    /\ \E on \in {None} \cup {Some(f) : f \in SeqsUpTo(FilterValues, MaxConds)} :
           entry = [on |-> on, patterns |-> <<>>]
    /\ weather \in {None} \cup {Some(w) : w \in SeqsUpTo(Conditions, MaxConds)}
    /\ weatherCall = "not_called"
    /\ kept = FALSE
    /\ TimeIdle /\ RunIdle /\ ExpandIdle /\ CallIdle

Filter ==
    /\ pc = "filter"
    /\ kept' = Keeps(entry.on, weather)
    /\ pc' = "filtered"
    /\ UNCHANGED <<now, today_beginning, solar, events, period, entry, runVars,
                   weatherVars, expandVars, callVars>>

MatchNext == Filter

SpecMatch == MatchInit /\ [][MatchNext]_vars

Range(q) == {q[i] : i \in DOMAIN q}

CondHit(f, c) == (IsId(f) /\ f.id = c.id) \/ (~IsId(f) /\ f.main = c.main)

\* C3: an entry survives the weather filter exactly when its filter is
\* absent, or a snapshot is present and some filter value equals the code
\* or the category of some condition of the snapshot; so without a snapshot
\* a filtered entry is skipped, one code hit is enough whatever categories
\* the filter also names, and an empty filter never matches.
C3_FilterSurvival ==
    pc = "filtered" =>
        /\ kept <=>
             \/ entry.on = None
             \/ /\ weather # None
                /\ entry.on # None
                /\ \E c \in Range(Unwrap(weather)), f \in Range(Unwrap(entry.on)) :
                       CondHit(f, c)
        /\ entry.on # None /\ weather = None => ~kept
        /\ entry.on = Some(<<>>) => ~kept
        /\ /\ entry.on # None /\ weather # None
           /\ \E c \in Range(Unwrap(weather)), f \in Range(Unwrap(entry.on)) :
                  IsId(f) /\ f.id = c.id
           => kept

\* C3 witness: a filter naming a category the snapshot does not have and a
\* code it has; the entry is kept.
C3_Witness ==
    /\ pc = "filtered"
    /\ entry.on = Some(<<[main |-> "Rain"], [id |-> 800]>>)
    /\ weather = Some(<<[id |-> 800, main |-> "Clear"]>>)
    /\ kept

(***************************************************************************)
(* Config::paths, second half: patterns, glob and the file test.           *)
(***************************************************************************)
\* What glob::glob meets on disk.  kind is what the path leads to; utf8 is
\* whether path.to_str() is Some; readable is whether glob could read it
\* (an unreadable directory makes glob yield Err instead of a path).
File(name, kind, utf8, readable) ==
    [name |-> name, kind |-> kind, utf8 |-> utf8, readable |-> readable]

FS ==
    << File(<<"a", "1">>, "file", TRUE, TRUE),
       File(<<"a", "2">>, "file", TRUE, TRUE),
       File(<<"b", "1">>, "file", TRUE, TRUE),
       File(<<"d", "1">>, "dir", TRUE, TRUE),
       File(<<"l", "1">>, "dangling", TRUE, TRUE),
       File(<<"n", "1">>, "file", FALSE, TRUE),
       File(<<"e", "1">>, "dir", TRUE, FALSE) >>

\* glob::Pattern::matches for literal characters and `*`.
RECURSIVE GlobMatch(_, _)
GlobMatch(p, name) ==
    IF p = <<>> THEN name = <<>>
    ELSE IF Head(p) = "*"
         THEN \/ GlobMatch(Tail(p), name)
              \/ name # <<>> /\ GlobMatch(p, Tail(name))
    ELSE name # <<>> /\ Head(name) = Head(p) /\ GlobMatch(Tail(p), Tail(name))

\* glob::glob(p): the entries on disk the pattern matches, in disk order.
Glob(p) == SelectSeq(FS, LAMBDA f : GlobMatch(p, f.name))

RECURSIVE Concat(_)
Concat(ss) == IF ss = <<>> THEN <<>> ELSE Head(ss) \o Concat(Tail(ss))

\* The first-match policy: only the first surviving entry is used.
SurvivingFirst(list, w) ==
    LET all == SelectSeq(list, LAMBDA e : Keeps(e.on, w))
    IN  IF all = <<>> THEN <<>> ELSE <<Head(all)>>

\* .iter().filter(|Patterns { on, .. }| ...)
Surviving(list, w) == SelectSeq(list, LAMBDA e : Keeps(e.on, w))

\* The last flat_map of Config::paths: Ok(path) with path.is_file() and
\* path.to_str().is_some() is kept, anything else is logged and dropped.
IsCandidate(f) == f.readable /\ f.kind = "file" /\ f.utf8

\* Config::paths.
PathsOf(c, t, ev, w) ==
    LET list == c.rules[PeriodAt(t, ev)]
        surviving == Surviving(list, w)
        patterns == Concat([i \in 1..Len(surviving) |-> surviving[i].patterns])
        globbed == Concat([i \in 1..Len(patterns) |-> Glob(patterns[i])])
        files == SelectSeq(globbed, IsCandidate)
    IN  [i \in 1..Len(files) |-> files[i].name]

(***************************************************************************)
(* Openweathermap::weather_data: the key file.                             *)
(***************************************************************************)
Ok(x) == [ok |-> TRUE, val |-> x]
Err(x) == [ok |-> FALSE, val |-> x]

KeyChars == {"0", "1"}

\* What a key file may hold: a key character, a character that is not one
\* (an upper-case digit) and white space.
KeyFileChars == {"0", "F", " "}
IsSpace(c) == c = " "

\* What fs::read_to_string(path) gives: an error, or the content.
KeyFiles == {Err(<<>>)} \cup {Ok(c) : c \in SeqsUpTo(KeyFileChars, MaxKeyFileLen)}

\* \s* at the head of what is left to match.
RECURSIVE SkipSpace(_)
SkipSpace(str) ==
    IF str # <<>> /\ IsSpace(Head(str)) THEN SkipSpace(Tail(str)) ELSE str

\* A slip in the pattern: no \A and no \z, the first run of key characters
\* of the right length anywhere in the content is captured.
RECURSIVE ApiKeyCapturesUnanchored(_)
ApiKeyCapturesUnanchored(content) ==
    IF Len(content) < KeyLen THEN Err(<<>>)
    ELSE IF \A i \in 1..KeyLen : content[i] \in KeyChars
         THEN Ok(SubSeq(content, 1, KeyLen))
    ELSE ApiKeyCapturesUnanchored(Tail(content))

\* API_KEY.captures(&content) with \A\s*([0-9a-f]{32})\s*\z: white space,
\* the digits of the key, white space, the end.
ApiKeyCaptures(content) ==
    LET head == SkipSpace(content)
        key == SubSeq(head, 1, KeyLen)
        rest == SkipSpace(SubSeq(head, KeyLen + 1, Len(head)))
    IN  IF /\ Len(head) >= KeyLen
           /\ \A i \in 1..KeyLen : key[i] \in KeyChars
           /\ rest = <<>>
        THEN Ok(key)
        ELSE Err(<<>>)

\* fs::read_to_string(path).map_err(..).and_then(..).with_context(..)
ReadApiKey(file) ==
    IF file.ok THEN ApiKeyCaptures(file.val) ELSE Err(<<>>)

(***************************************************************************)
(* Openweathermap::weather_data, after the key has been read.              *)
(***************************************************************************)
\* impl Default for CurrentWeatherData: clear sky, id 800.
DefaultWeather == <<[id |-> 800, main |-> "Clear"]>>

\* The ways current_weather_data_by_coordinates returns Err.
CallFailures == {"client_error", "send_failed", "status_error", "bad_json"}

\* A slip in the fallback: a failed call leaves a snapshot with no condition.
WeatherDataNoCondition(result) ==
    IF result.ok THEN result.data ELSE <<>>

\* current_weather_data_by_coordinates(..).map(..).unwrap_or_else(..)
weather_data(result) ==
    IF result.ok THEN result.data ELSE DefaultWeather

(***************************************************************************)
(* Config::choose, the selection, set_wallpaper and main.                  *)
(***************************************************************************)
\* A slip in the selection: an empty list answered with an empty path.
ChooseOrEmptyPath(ps) ==
    IF ps = <<>> THEN {Ok(<<>>)} ELSE {Ok(ps[i]) : i \in 1..Len(ps)}

\* paths.choose(&mut rand::thread_rng()).map(Clone::clone).ok_or_else(..):
\* the results the random choice can give.
choose(ps) ==
    IF ps = <<>> THEN {Err("No matches found")}
    ELSE {Ok(ps[i]) : i \in 1..Len(ps)}

\* A slip in main: the error is logged and main returns.
ExitStatusLogOnly(how) ==
    IF how = "panic" THEN 101 ELSE 0

\* main: Err of Opt::run is logged and process::exit(1) is called, Ok lets
\* main return (status 0), a panic unwinds out of main (status 101).
ExitStatus(how) ==
    IF how = "err" THEN 1 ELSE IF how = "panic" THEN 101 ELSE 0

\* The rule entries of the configurations the model loads.
Entry(on, patterns) == [on |-> on, patterns |-> patterns]

RuleLists ==
    << << Entry(None, << <<"a", "*">>, <<"z", "*">> >>),
          Entry(Some(<<[main |-> "Rain"]>>), << <<"b", "1">> >>) >>,
       << Entry(Some(<<[main |-> "Clear"]>>), << <<"b", "1">> >>),
          Entry(None, << <<"*", "1">> >>) >>,
       << Entry(Some(<<[main |-> "Rain"], [id |-> 800]>>), << <<"a", "*">> >>) >>,
       << >>,
       << Entry(Some(<<>>), << <<"a", "*">> >>),
          Entry(None, << <<"d", "1">>, <<"e", "*">> >>) >> >>

PeriodOrder == <<"midnight", "morning", "early_afternoon", "late_afternoon", "evening">>

\* Config: whether openweathermap is given, and the five rule lists.  The
\* k-th configuration gives the five periods the five lists, rotated by k.
Configs ==
    { [openweathermap |-> o,
       rules |-> [p \in Periods |->
                    RuleLists[(((CHOOSE i \in 1..5 : PeriodOrder[i] = p) + k) % 5) + 1]]]
      : o \in BOOLEAN, k \in 0..4 }

\* Minutes after the day start at which the run takes place.
NowOffsets == {60, 400, 750, 1000, 1100}

\* What the weather provider answers when the call succeeds.
Snapshots ==
    { <<>>, <<[id |-> 800, main |-> "Clear"]>>, <<[id |-> 500, main |-> "Rain"]>>,
      <<[id |-> 501, main |-> "Rain"], [id |-> 701, main |-> "Mist"]>> }

Init ==
    /\ pc = "start"
    /\ TimeIdle /\ RunIdle /\ WeatherIdle /\ MatchIdle /\ ExpandIdle /\ CallIdle

Exit(how, why) ==
    /\ pc' = "exited"
    /\ exitCode' = Some(ExitStatus(how))
    /\ outcome' = why

\* Config::load fails: Opt::run returns the error.
LoadFail ==
    /\ pc = "start"
    /\ Exit("err", "config_error")
    /\ UNCHANGED <<now, today_beginning, solar, events, period, config, paths,
                   chosen, applied, weatherVars, matchVars, expandVars, callVars>>

LoadOk ==
    /\ pc = "start"
    /\ \E c \in Configs : config' = Some(c)
    /\ pc' = "now"
    /\ UNCHANGED <<now, today_beginning, solar, events, period, paths, chosen,
                   applied, exitCode, outcome, weatherVars, matchVars,
                   expandVars, callVars>>

\* OffsetDateTime::now_local() fails.
NowFail ==
    /\ pc = "now"
    /\ Exit("err", "time_error")
    /\ UNCHANGED <<now, today_beginning, solar, events, period, config, paths,
                   chosen, applied, weatherVars, matchVars, expandVars, callVars>>

\* now and today_beginning, and what the solar library will answer for them.
Now ==
    /\ pc = "now"
    /\ \E b \in DayStarts, off \in NowOffsets :
        /\ now' = b + off
        /\ today_beginning' = ((b + off) \div Day) * Day
        /\ \E sr \in {None, Some(b + 360)},
              ss \in {None, Some(b + 1080), Some(b + 300)},
              mn \in {b - 360, b + 360} :
                solar' = [sunrise |-> sr, midday |-> b + 720,
                          sunset |-> ss, midnight |-> mn]
    /\ pc' = "events"
    /\ UNCHANGED <<events, period, runVars, weatherVars, matchVars, expandVars,
                   callVars>>

RunEventsPanic ==
    /\ pc = "events"
    /\ todays_events(today_beginning, solar).kind = "panic"
    /\ Exit("panic", "solar_panic")
    /\ UNCHANGED <<now, today_beginning, solar, events, period, config, paths,
                   chosen, applied, weatherVars, matchVars, expandVars, callVars>>

RunEvents ==
    /\ pc = "events"
    /\ todays_events(today_beginning, solar).kind = "ok"
    /\ events' = todays_events(today_beginning, solar).events
    /\ pc' = "weather"
    /\ UNCHANGED <<now, today_beginning, solar, period, runVars, weatherVars,
                   matchVars, expandVars, callVars>>

\* self.openweathermap is None: no weather data.
NoWeather ==
    /\ pc = "weather"
    /\ ~Unwrap(config).openweathermap
    /\ weather' = None
    /\ weatherCall' = "not_configured"
    /\ pc' = "paths"
    /\ UNCHANGED <<now, today_beginning, solar, events, period, runVars,
                   matchVars, expandVars, callVars>>

\* The key file cannot be read or does not hold a key: weather_data returns
\* the error and choose passes it on.
WeatherKeyError ==
    /\ pc = "weather"
    /\ Unwrap(config).openweathermap
    /\ \E file \in KeyFiles :
           /\ ~ReadApiKey(file).ok
           /\ keyFile' = Some(file)
    /\ weatherCall' = "key_error"
    /\ Exit("err", "key_error")
    /\ UNCHANGED <<now, today_beginning, solar, events, period, config, paths,
                   chosen, applied, weather, matchVars, expandVars, api_key,
                   reply, log>>

\* The key file holds a key: the call is made with it.
WeatherKeyRead ==
    /\ pc = "weather"
    /\ Unwrap(config).openweathermap
    /\ \E file \in KeyFiles :
           /\ ReadApiKey(file).ok
           /\ keyFile' = Some(file)
           /\ api_key' = ReadApiKey(file).val
    /\ pc' = "call"
    /\ UNCHANGED <<now, today_beginning, solar, events, period, runVars,
                   weatherVars, matchVars, expandVars, reply, log>>

WeatherOk ==
    /\ pc = "call"
    /\ \E data \in Snapshots : weather' = Some(weather_data([ok |-> TRUE, data |-> data]))
    /\ weatherCall' = "ok"
    /\ pc' = "paths"
    /\ UNCHANGED <<now, today_beginning, solar, events, period, runVars,
                   matchVars, expandVars, callVars>>

\* The call fails: the client cannot be built, the request cannot be sent,
\* the status is an error status, or the body is not the expected JSON.
WeatherFailed ==
    /\ pc = "call"
    /\ weather' = Some(weather_data([ok |-> FALSE]))
    /\ weatherCall' \in CallFailures
    /\ pc' = "paths"
    /\ UNCHANGED <<now, today_beginning, solar, events, period, runVars,
                   matchVars, expandVars, callVars>>

Paths ==
    /\ pc = "paths"
    /\ period' = PeriodAt(now, events)
    /\ paths' = PathsOf(Unwrap(config), now, events, weather)
    /\ pc' = "choose"
    /\ UNCHANGED <<now, today_beginning, solar, events, config, chosen, applied,
                   exitCode, outcome, weatherVars, matchVars, expandVars, callVars>>

ChooseNone ==
    /\ pc = "choose"
    /\ \E r \in choose(paths) : ~r.ok
    /\ Exit("err", "no_match")
    /\ UNCHANGED <<now, today_beginning, solar, events, period, config, paths,
                   chosen, applied, weatherVars, matchVars, expandVars, callVars>>

ChooseOne ==
    /\ pc = "choose"
    /\ \E r \in choose(paths) : r.ok /\ chosen' = Some(r.val)
    /\ pc' = "set"
    /\ UNCHANGED <<now, today_beginning, solar, events, period, config, paths,
                   applied, exitCode, outcome, weatherVars, matchVars,
                   expandVars, callVars>>

\* set_wallpaper: wallpaper::set_from_path succeeds.
SetOk ==
    /\ pc = "set"
    /\ applied' = applied + 1
    /\ Exit("ok", "applied")
    /\ UNCHANGED <<now, today_beginning, solar, events, period, config, paths,
                   chosen, weatherVars, matchVars, expandVars, callVars>>

\* set_wallpaper: wallpaper::set_from_path fails.
SetFail ==
    /\ pc = "set"
    /\ applied' = applied + 1
    /\ Exit("err", "apply_failed")
    /\ UNCHANGED <<now, today_beginning, solar, events, period, config, paths,
                   chosen, weatherVars, matchVars, expandVars, callVars>>

Next ==
    \/ LoadFail \/ LoadOk \/ NowFail \/ Now \/ RunEventsPanic \/ RunEvents
    \/ NoWeather \/ WeatherKeyError \/ WeatherKeyRead \/ WeatherOk
    \/ WeatherFailed
    \/ Paths \/ ChooseNone \/ ChooseOne \/ SetOk \/ SetFail

Spec == Init /\ [][Next]_vars

\* Config::paths has returned.
PathsDone == pc \in {"choose", "set"} \/ (pc = "exited" /\ period # "unset")

\* Config::choose has made its selection.
ChooseDone == pc = "set" \/ (pc = "exited" /\ period # "unset")

ActiveList == Unwrap(config).rules[period]

\* The (entry, pattern, file) triples of a rule list in which the entry is
\* one of those Keep accepts, the pattern is one of the entry's, and the
\* file is one on disk that the pattern matches and Good accepts.
Hits(list, Keep(_), Good(_)) ==
    UNION { { h \in {i} \X (DOMAIN list[i].patterns) \X (DOMAIN FS) :
                /\ GlobMatch(list[i].patterns[h[2]], FS[h[3]].name)
                /\ Good(FS[h[3]]) }
            : i \in {x \in DOMAIN list : Keep(list[x])} }

HitNames(hits) == {FS[h[3]].name : h \in hits}

SurvivesWeather(e) == Keeps(e.on, weather)
IsRegularFile(f) == f.kind = "file"
IsRegularUtf8File(f) == f.kind = "file" /\ f.utf8

\* C4 as stated: the candidate list is exactly the regular-file glob matches
\* of all patterns of all entries of the active period's list that survive
\* the weather filter, one candidate per match.
C4_AllRegularFileMatches ==
    PathsDone =>
        /\ Range(paths) = HitNames(Hits(ActiveList, SurvivesWeather, IsRegularFile))
        /\ Len(paths) = Cardinality(Hits(ActiveList, SurvivesWeather, IsRegularFile))

\* C4 amended: the candidate list is exactly the glob matches, of all
\* patterns of all surviving entries of the active period's list, that are
\* regular files with a valid UTF-8 path, one candidate per match; no
\* surviving entry is shadowed, no other period contributes, and a match
\* that is not such a file is skipped while the run goes on.
C4_AllRegularUtf8FileMatches ==
    PathsDone =>
        /\ Range(paths) = HitNames(Hits(ActiveList, SurvivesWeather, IsRegularUtf8File))
        /\ Len(paths) = Cardinality(Hits(ActiveList, SurvivesWeather, IsRegularUtf8File))

\* C4 witness: two surviving entries that both contribute, and matches that
\* are a directory and a regular file without a UTF-8 path, both skipped.
C4_Witness ==
    /\ pc = "choose"
    /\ Len(Surviving(ActiveList, weather)) = 2
    /\ \A i \in 1..2 :
         \E h \in Hits(ActiveList, SurvivesWeather, IsRegularUtf8File) : h[1] = i
    /\ \E h \in Hits(ActiveList, SurvivesWeather, LAMBDA f : f.kind = "dir") : TRUE
    /\ \E h \in Hits(ActiveList, SurvivesWeather, LAMBDA f : ~f.utf8) : TRUE
    /\ Len(paths) = 3

HasNoFilter(e) == e.on = None
NamesClearSky(e) ==
    \/ e.on = None
    \/ \E f \in Range(Unwrap(e.on)) : f = [id |-> 800] \/ f = [main |-> "Clear"]

\* C2 as stated: after a failed weather call the run goes on and the
\* candidates come from the entries without a filter only.
C2_FailedCallUnconditionalOnly ==
    weatherCall \in CallFailures =>
        /\ pc = "exited" => period # "unset"
        /\ PathsDone =>
             Range(paths) = HitNames(Hits(ActiveList, HasNoFilter, IsCandidate))

\* C2 amended: after a failed weather call the run goes on with the
\* synthetic clear-sky snapshot (code 800, category Clear): the candidates
\* come from the entries without a filter and from the entries whose filter
\* names code 800 or category Clear; every other filtered entry contributes
\* nothing.
C2_FailedCallClearSky ==
    weatherCall \in CallFailures =>
        /\ pc = "exited" => period # "unset"
        /\ PathsDone =>
             Range(paths) = HitNames(Hits(ActiveList, NamesClearSky, IsCandidate))

\* C2 witness: the call failed and an entry filtered on Clear contributed.
C2_Witness ==
    /\ weatherCall \in CallFailures
    /\ pc = "choose"
    /\ \E h \in Hits(ActiveList, NamesClearSky, IsCandidate) :
           ~HasNoFilter(ActiveList[h[1]])
    /\ paths # <<>>

\* C5: the selection over an empty candidate list fails with the no-match
\* error, the run ends with a non-zero status and set_from_path is never
\* called; the selection over a non-empty list yields a member of the list.
C5_Selection ==
    ChooseDone =>
        /\ paths = <<>> =>
             /\ pc = "exited" /\ outcome = "no_match"
             /\ chosen = None /\ applied = 0
             /\ exitCode # None /\ exitCode # Some(0)
        /\ paths # <<>> =>
             /\ chosen # None
             /\ Unwrap(chosen) \in Range(paths)

\* C5 witness: an empty candidate list ended the run with the no-match error.
C5_Witness ==
    /\ pc = "exited" /\ period # "unset"
    /\ paths = <<>>
    /\ outcome = "no_match"
    /\ exitCode = Some(1)

Failures ==
    {"config_error", "time_error", "solar_panic", "key_error", "no_match",
     "apply_failed"}

PathChars == {"~", "/", ".", "a"}

\* The pieces of a string between its separators, empty pieces included.
RECURSIVE Segments(_)
Segments(str) ==
    IF \A i \in DOMAIN str : str[i] # "/" THEN <<str>>
    ELSE LET k == CHOOSE i \in DOMAIN str :
                      str[i] = "/" /\ \A j \in 1..(i - 1) : str[j] # "/"
         IN  <<SubSeq(str, 1, k - 1)>> \o Segments(SubSeq(str, k + 1, Len(str)))

\* Path::components: the root if the path starts with a separator, a
\* leading `.` if it does not, then every piece that is neither empty nor
\* `.`.
Components(str) ==
    LET segs == Segments(str)
        root == str # <<>> /\ str[1] = "/"
        curdir == ~root /\ segs[1] = <<".">>
        body == SelectSeq(IF curdir THEN Tail(segs) ELSE segs,
                          LAMBDA g : g # <<>> /\ g # <<".">>)
    IN  (IF root THEN << <<"/">> >> ELSE IF curdir THEN << <<".">> >> ELSE <<>>)
        \o body

\* PathBuf::join: an absolute component replaces the buffer, any other is
\* appended, after a separator unless the buffer is empty or ends with one.
Join(buf, comp) ==
    IF comp # <<>> /\ comp[1] = "/" THEN comp
    ELSE IF buf # <<>> /\ buf[Len(buf)] # "/" THEN buf \o <<"/">> \o comp
    ELSE buf \o comp

\* fold_unwrap: tail.iter().fold(PathBuf::from(head), |p, s| p.join(s))
RECURSIVE fold_unwrap(_, _)
fold_unwrap(head, comps) ==
    IF comps = <<>> THEN head
    ELSE fold_unwrap(Join(head, Head(comps)), Tail(comps))

\* Path::new(path).strip_prefix("~") is Ok: the first component is `~`.
StripsTilde(str) == Components(str) # <<>> /\ Components(str)[1] = <<"~">>

\* A slip in the first test: any leading `~` is taken for the home directory.
ExpandUserWithAnyTilde(str, hm) ==
    IF str # <<>> /\ str[1] = "~" THEN Ok(hm \o Tail(str))
    ELSE Ok(fold_unwrap(<<>>, Components(str)))

\* de::expand_user_with
expand_user_with(str, hm) ==
    IF StripsTilde(str) THEN Ok(fold_unwrap(hm, Tail(Components(str))))
    ELSE IF str # <<>> /\ str[1] = "~" THEN Err("Unsupported use of '~'")
    ELSE Ok(fold_unwrap(<<>>, Components(str)))

Homes == { <<"/", "h">>, <<"/", "h", "/", "u">> }

ExpandInit ==
    /\ pc = "expand"
    /\ path \in SeqsUpTo(PathChars, MaxPathLen)
    /\ home \in Homes
    /\ expanded = None
    /\ TimeIdle /\ RunIdle /\ WeatherIdle /\ MatchIdle /\ CallIdle

Expand ==
    /\ pc = "expand"
    /\ expanded' = Some(expand_user_with(path, home))
    /\ pc' = "expanded"
    /\ UNCHANGED <<now, today_beginning, solar, events, period, path, home,
                   runVars, weatherVars, matchVars, callVars>>

\* patterns_expanding_user: the expanded string is parsed as a pattern.
PatternOk ==
    /\ pc = "expanded"
    /\ Unwrap(expanded).ok
    /\ pc' = "pattern"
    /\ UNCHANGED <<now, today_beginning, solar, events, period, expandVars,
                   runVars, weatherVars, matchVars, callVars>>

\* patterns_expanding_user: the error of expand_user becomes the error of
\* the deserializer, and Config::load fails.
PatternError ==
    /\ pc = "expanded"
    /\ ~Unwrap(expanded).ok
    /\ pc' = "load_error"
    /\ UNCHANGED <<now, today_beginning, solar, events, period, expandVars,
                   runVars, weatherVars, matchVars, callVars>>

ExpandNext == Expand \/ PatternOk \/ PatternError

SpecExpand == ExpandInit /\ [][ExpandNext]_vars

Expanded == pc \in {"expanded", "pattern", "load_error"}

\* home followed by each of the components, a separator before each.
RECURSIVE Under(_, _)
Under(dir, comps) ==
    IF comps = <<>> THEN dir
    ELSE Under(dir \o <<"/">> \o Head(comps), Tail(comps))

HasTilde(str) == \E i \in DOMAIN str : str[i] = "~"
StartsWithTilde(str) == str # <<>> /\ str[1] = "~"

\* No repeated separator, no separator at the end, no `.` piece after the
\* first: the string is what joining its components gives.
Normalized(str) ==
    \/ str = <<>>
    \/ str = <<"/">>
    \/ LET root == str[1] = "/"
           segs == Segments(IF root THEN Tail(str) ELSE str)
       IN  \A i \in DOMAIN segs :
               /\ segs[i] # <<>>
               /\ segs[i] = <<".">> => (i = 1 /\ ~root)

TextChars == KeyChars \cup {"x"}
Keys == [1..KeyLen -> KeyChars]
Texts == SeqsUpTo(TextChars, MaxTextLen)

\* api_key.replace(|_| true, "█"): one block per character of the key.
Mask(key) == [i \in 1..Len(key) |-> "#"]

\* A slip in hide: only the first occurrence is replaced (replacen(.., 1)).
RECURSIVE HideFirstOnly(_, _)
HideFirstOnly(str, key) ==
    IF Len(str) < Len(key) THEN str
    ELSE IF SubSeq(str, 1, Len(key)) = key
         THEN Mask(key) \o SubSeq(str, Len(key) + 1, Len(str))
    ELSE <<Head(str)>> \o HideFirstOnly(Tail(str), key)

\* hide: s.replace(api_key, mask), every occurrence found from left to
\* right, the search going on after the end of each.
RECURSIVE hide(_, _)
hide(str, key) ==
    IF Len(str) < Len(key) THEN str
    ELSE IF SubSeq(str, 1, Len(key)) = key
         THEN Mask(key) \o hide(SubSeq(str, Len(key) + 1, Len(str)), key)
    ELSE <<Head(str)>> \o hide(Tail(str), key)

\* The digits lon.to_string() and lat.to_string() put into the query.
CoordinateTexts == { <<"0">>, <<"1", "0">>, <<"1", "1", "0">> }

\* url.query_pairs_mut().append_pair("lon", ..).append_pair("lat", ..)
\*    .append_pair("APPID", api_key)
Url(coords, key) == <<"?">> \o coords \o <<"&">> \o key

\* Texts of the messages that do not depend on the call.
CurrentWeatherLine == <<"w">>
ClearSkyLine == <<"c">>
StatusLine == <<"s">>
\* The error of Client::builder().build(), raised before the URL exists.
BuilderErrors == { <<"t", "l", "s">> }
\* The descriptions the provider has for its conditions.
Descriptions == { <<"c", "l", "r">>, <<"r", "a", "i", "n">> }

CallInit ==
    /\ pc = "build"
    /\ api_key \in Keys
    /\ keyFile = Some(Ok(api_key))
    /\ reply = None
    /\ log = <<>>
    /\ TimeIdle /\ RunIdle /\ WeatherIdle /\ MatchIdle /\ ExpandIdle

callFrame == <<now, today_beginning, solar, events, period, runVars, matchVars,
               expandVars, keyFile, api_key>>

\* reqwest::blocking::Client::builder().build() fails: its text is returned.
BuildFail ==
    /\ pc = "build"
    /\ \E text \in BuilderErrors : reply' = Some(Err(text))
    /\ weatherCall' = "client_error"
    /\ pc' = "returned"
    /\ UNCHANGED <<callFrame, weather, log>>

\* The URL is built and logged.
LogRequest ==
    /\ pc = "build"
    /\ \E coords \in CoordinateTexts :
           log' = Append(log, hide(Url(coords, api_key), api_key))
    /\ pc' = "send"
    /\ UNCHANGED <<callFrame, weatherVars, reply>>

\* send() fails.
SendFail ==
    /\ pc = "send"
    /\ \E text \in Texts : reply' = Some(Err(hide(text, api_key)))
    /\ weatherCall' = "send_failed"
    /\ pc' = "returned"
    /\ UNCHANGED <<callFrame, weather, log>>

\* send() answers: the status is logged.
SendOk ==
    /\ pc = "send"
    /\ log' = Append(log, StatusLine)
    /\ pc' = "status"
    /\ UNCHANGED <<callFrame, weatherVars, reply>>

\* error_for_status() fails.
StatusError ==
    /\ pc = "status"
    /\ \E text \in Texts : reply' = Some(Err(hide(text, api_key)))
    /\ weatherCall' = "status_error"
    /\ pc' = "returned"
    /\ UNCHANGED <<callFrame, weather, log>>

\* Response::json fails.
BadJson ==
    /\ pc = "status"
    /\ \E text \in Texts : reply' = Some(Err(hide(text, api_key)))
    /\ weatherCall' = "bad_json"
    /\ pc' = "returned"
    /\ UNCHANGED <<callFrame, weather, log>>

\* Response::json gives the weather data.
GoodJson ==
    /\ pc = "status"
    /\ \E data \in Snapshots : reply' = Some(Ok(data))
    /\ weatherCall' = "ok"
    /\ pc' = "returned"
    /\ UNCHANGED <<callFrame, weather, log>>

\* weather_data, .map(..): the conditions are logged.
LogWeather ==
    /\ pc = "returned"
    /\ Unwrap(reply).ok
    /\ \E d \in [1..Len(Unwrap(reply).val) -> Descriptions] :
           log' = Append(log, CurrentWeatherLine) \o d
    /\ weather' = Some(weather_data([ok |-> TRUE, data |-> Unwrap(reply).val]))
    /\ pc' = "done"
    /\ UNCHANGED <<callFrame, weatherCall, reply>>

\* weather_data, .unwrap_or_else(..): the warning is logged.
LogWarning ==
    /\ pc = "returned"
    /\ ~Unwrap(reply).ok
    /\ log' = log \o <<Unwrap(reply).val, ClearSkyLine>>
    /\ weather' = Some(weather_data([ok |-> FALSE]))
    /\ pc' = "done"
    /\ UNCHANGED <<callFrame, weatherCall, reply>>

CallNext ==
    \/ BuildFail \/ LogRequest \/ SendFail \/ SendOk \/ StatusError
    \/ BadJson \/ GoodJson \/ LogWeather \/ LogWarning

SpecWeatherCall == CallInit /\ [][CallNext]_vars

Contains(str, key) ==
    \E j \in 0..(Len(str) - Len(key)) : SubSeq(str, j + 1, j + Len(key)) = key

\* C10: no message in the log contains the API key, after the request URL
\* is logged, after a successful call and after each way the call fails;
\* the error text handed back for logging does not contain it either.
C10_KeyNeverLogged ==
    /\ \A i \in DOMAIN log : ~Contains(log[i], api_key)
    /\ reply # None /\ ~Unwrap(reply).ok => ~Contains(Unwrap(reply).val, api_key)

\* C10 witness: the call failed with an error text that held the key twice;
\* the text is in the log, all of it masked.
C10_Witness ==
    /\ pc = "done"
    /\ weatherCall = "status_error"
    /\ Len(log) = 4
    /\ log[3] = Mask(api_key) \o Mask(api_key)

(***************************************************************************)
(* The run when the key file is bad.                                       *)
(***************************************************************************)
\* The content is white space, exactly one key, white space.
HoldsOneKey(content) ==
    \E i, j \in 0..Len(content) :
        /\ i + KeyLen + j = Len(content)
        /\ \A k \in 1..i : IsSpace(content[k])
        /\ \A k \in (i + 1)..(i + KeyLen) : content[k] \in KeyChars
        /\ \A k \in (i + KeyLen + 1)..Len(content) : IsSpace(content[k])

BadKeyFile(file) == ~file.ok \/ ~HoldsOneKey(file.val)

\* C11: with a weather credential configured, a key file that cannot be
\* read or does not hold exactly one key between white space ends the run
\* where it is read: no weather request, no snapshot and no fallback, no
\* candidate resolution and no selection, set_from_path never called, and a
\* non-zero exit status; a key file that holds one key never ends it there.
C11_BadKeyFileEndsRun ==
    /\ pc \in {"start", "now", "events", "weather"} => keyFile = None
    /\ keyFile # None =>
        /\ Unwrap(config).openweathermap
        /\ BadKeyFile(Unwrap(keyFile)) =>
             /\ pc = "exited" /\ outcome = "key_error"
             /\ exitCode # None /\ exitCode # Some(0)
             /\ weatherCall = "key_error" /\ weather = None
             /\ period = "unset" /\ paths = <<>> /\ chosen = None
             /\ applied = 0
        /\ ~BadKeyFile(Unwrap(keyFile)) =>
             /\ outcome # "key_error"
             /\ api_key \in Keys
             /\ HoldsOneKey(Unwrap(keyFile).val)
             /\ Contains(Unwrap(keyFile).val, api_key)

\* C11 witness: a readable key file with one digit too many, in a
\* configuration whose rule lists have entries without a filter; the run
\* ended with the key error.
C11_Witness ==
    /\ pc = "exited"
    /\ outcome = "key_error"
    /\ Unwrap(keyFile).ok
    /\ Len(Unwrap(keyFile).val) = KeyLen + 1
    /\ \A i \in DOMAIN Unwrap(keyFile).val : Unwrap(keyFile).val[i] \in KeyChars
    /\ \E p \in Periods : \E i \in DOMAIN Unwrap(config).rules[p] :
           Unwrap(config).rules[p][i].on = None
    /\ exitCode = Some(1)

====
